---------------------------- MODULE Spec2Model ----------------------------
(***************************************************************************)
(* A model of the `coercion` crate: in-place conversions between types of  *)
(* the same size and alignment.                                            *)
(*                                                                         *)
(* The model has two parts.                                                *)
(*  - Build time: the expansion of the two declarative macros              *)
(*    (unsafe_impl_coerce!, unsafe_impl_as!) over the built-in tables and  *)
(*    over one optional downstream declaration.  Every macro arm is one    *)
(*    action; the expansion leaves the lists of generated impl items.      *)
(*  - Run time: a client that holds one value and applies the conversion   *)
(*    operations of the two traits (coerce, as_, coerce_ptr,               *)
(*    coerce_mut_ptr), reads through a reference and drops the value.      *)
(*                                                                         *)
(* A type is a non-empty sequence of strings: unary type constructors      *)
(* followed by a nullary type, e.g. <<"Box","Slice","u8">> is Box<[u8]>.   *)
(* A value is its type and its bytes (pointers are little-endian words of  *)
(* a 64-bit target).                                                       *)
(***************************************************************************)
EXTENDS Integers, Sequences, FiniteSets, TLC

VARIABLES
    maybe_uninit,   \* cargo feature "maybe_uninit" of this build
    todo,           \* stack of macro invocations still to expand
    crate,          \* which crate is being expanded: "coercion" | "downstream"
    coerceImpls,    \* sequence of <<Self, T>>: generated `impl Coerce<T> for Self`
    asImpls,        \* sequence of <<Self, T>>: generated `impl As<T> for Self`
    handImpls,      \* sequence of <<Self, T>>: downstream `unsafe impl Coerce<T> for Self {}`
    pc,             \* "expand" | "build_failed" | "built" | "run" | "panicked" | "dropped"
    heap,           \* address -> allocation
    cur,            \* the value the client holds
    orig,           \* the value the client started from, and the heap then
    path,           \* the types the value went through
    tier,           \* "safe" while only as_ was used, "unchecked" after a coerce
    last            \* the last operation: its impl pair, argument, result

vars == <<maybe_uninit, todo, crate, coerceImpls, asImpls, handImpls, pc, heap, cur,
          orig, path, tier, last>>

buildVars == <<maybe_uninit, todo, crate, coerceImpls, asImpls, handImpls>>
runVars == <<heap, cur, orig, path, tier, last>>

Range(s) == {s[i] : i \in DOMAIN s}

---------------------------------------------------------------------------
(* The built-in tables.                                                    *)

\* coerce.rs: mod impls, the argument of unsafe_impl_coerce!
CoerceTable ==
    << <<"u8", "i8", "NonZeroU8", "NonZeroI8", "AtomicU8", "AtomicI8", "bool", "AtomicBool">>,
       <<"u16", "i16", "NonZeroU16", "NonZeroI16", "AtomicU16", "AtomicI16">>,
       <<"u32", "i32", "NonZeroU32", "NonZeroI32", "AtomicU32", "AtomicI32">>,
       <<"u64", "i64", "NonZeroU64", "NonZeroI64", "AtomicU64", "AtomicI64">>,
       <<"u128", "i128", "NonZeroU128", "NonZeroI128">>,
       <<"usize", "isize", "NonZeroUsize", "NonZeroIsize", "AtomicUsize", "AtomicIsize">> >>

\* as_.rs: mod impls, the `=` chains of unsafe_impl_as!
AsChains ==
    << <<"u8", "i8", "AtomicU8", "AtomicI8">>,
       <<"u16", "i16", "AtomicU16", "AtomicI16">>,
       <<"u32", "i32", "AtomicU32", "AtomicI32">>,
       <<"u64", "i64", "AtomicU64", "AtomicI64">>,
       <<"u128", "i128">>,
       <<"usize", "isize", "AtomicUsize", "AtomicIsize">> >>

\* as_.rs: mod impls, the `=>` entries of unsafe_impl_as!
AsArrows ==
    << <<"bool", "u8">>,
       <<"NonZeroU8", "u8">>, <<"NonZeroU16", "u16">>, <<"NonZeroU32", "u32">>,
       <<"NonZeroU64", "u64">>, <<"NonZeroU128", "u128">>, <<"NonZeroUsize", "usize">>,
       <<"NonZeroI8", "i8">>, <<"NonZeroI16", "i16">>, <<"NonZeroI32", "i32">>,
       <<"NonZeroI64", "i64">>, <<"NonZeroI128", "i128">>, <<"NonZeroIsize", "isize">> >>

\* A macro invocation: the macro, the shape of its input and the types in it.
Inv(mac, form, tys, defs) == [mac |-> mac, form |-> form, tys |-> tys, defs |-> defs]

Ty(name) == <<name>>
Tys(names) == [i \in DOMAIN names |-> Ty(names[i])]

\* coerce.rs:181-188
BuiltinCoerceInvocation ==
    Inv("coerce", "defs", <<>>,
        [i \in DOMAIN CoerceTable |-> Inv("coerce", "bar", Tys(CoerceTable[i]), <<>>)])

\* as_.rs:64-85
BuiltinAsInvocation ==
    Inv("as", "defs", <<>>,
        [i \in DOMAIN AsChains |-> Inv("as", "brace_eq", Tys(AsChains[i]), <<>>)]
        \o [i \in DOMAIN AsArrows |-> Inv("as", "brace_arrow", Tys(AsArrows[i]), <<>>)])

\* What a downstream crate declares for a type of its own,
\* #[repr(C)] struct U8x2(u8, u8) of size 2 and alignment 1: an invocation
\* of one of the exported macros, or impls of Coerce written by hand with
\* the default methods.
DownstreamDecls ==
    { [macros |-> << Inv("coerce", "bar", <<Ty("U8x2"), Ty("u16")>>, <<>>) >>,
       impls |-> <<>>],
      [macros |-> << Inv("as", "brace_arrow", <<Ty("U8x2"), Ty("u16")>>, <<>>) >>,
       impls |-> <<>>],
      [macros |-> << Inv("as", "eq", <<Ty("U8x2"), Ty("u16")>>, <<>>) >>,
       impls |-> <<>>],
      [macros |-> <<>>,
       impls |-> << <<Ty("U8x2"), Ty("u16")>>, <<Ty("u16"), Ty("U8x2")>>,
                    <<Ty("U8x2"), Ty("u8")>> >>] }

---------------------------------------------------------------------------
(* Types and layouts (x86_64).                                             *)

PtrCtors == {"Box", "Ref", "RefMut", "PtrConst", "PtrMut"}

Bits8 == {"u8", "i8", "NonZeroU8", "NonZeroI8", "AtomicU8", "AtomicI8", "bool", "AtomicBool"}
Bits16 == {"u16", "i16", "NonZeroU16", "NonZeroI16", "AtomicU16", "AtomicI16"}
Bits32 == {"u32", "i32", "NonZeroU32", "NonZeroI32", "AtomicU32", "AtomicI32"}
Bits64 == {"u64", "i64", "NonZeroU64", "NonZeroI64", "AtomicU64", "AtomicI64",
           "usize", "isize", "NonZeroUsize", "NonZeroIsize", "AtomicUsize", "AtomicIsize"}
Bits128 == {"u128", "i128", "NonZeroU128", "NonZeroI128"}

NonZeroNames == {"NonZeroU8", "NonZeroI8", "NonZeroU16", "NonZeroI16", "NonZeroU32",
                 "NonZeroI32", "NonZeroU64", "NonZeroI64", "NonZeroU128", "NonZeroI128",
                 "NonZeroUsize", "NonZeroIsize"}

\* size of a pointer word
WordSize == 8

RECURSIVE Sized(_)
Sized(t) ==
    CASE Head(t) = "Slice" -> FALSE
      [] Head(t) = "str" -> FALSE
      [] Head(t) = "ManuallyDrop" -> Sized(Tail(t))
      [] OTHER -> TRUE

\* Layout::new::<*const T>(): one word, or two for a slice or str pointee
PtrLayout(t) == IF Sized(t) THEN <<WordSize, WordSize>> ELSE <<2 * WordSize, WordSize>>

\* Layout::new::<T>() of a Sized type: <<size, align>>
RECURSIVE LayoutOf(_)
LayoutOf(t) ==
    CASE Head(t) \in PtrCtors -> PtrLayout(Tail(t))
      [] Head(t) \in {"ManuallyDrop", "MaybeUninit"} -> LayoutOf(Tail(t))
      [] Head(t) \in Bits8 -> <<1, 1>>
      [] Head(t) \in Bits16 -> <<2, 2>>
      [] Head(t) \in Bits32 -> <<4, 4>>
      [] Head(t) \in Bits64 -> <<8, 8>>
      [] Head(t) \in Bits128 -> <<16, 16>>
      [] Head(t) = "U8x2" -> <<2, 1>>
      [] OTHER -> <<0, 1>>

SizeOf(t) == LayoutOf(t)[1]

---------------------------------------------------------------------------
(* Build time: macro expansion.                                            *)

Emit(impls, pairs) == impls \o pairs

\* The generated items name the traits as $crate::coerce::Coerce and
\* $crate::as_::As; `mod coerce;` and `mod as_;` are private, so the paths
\* resolve inside the crate only.
TraitPathVisible == crate = "coercion"

\* unsafe_impl_coerce!, arm ( $t:ty => $u:ty ): one impl whose coerce is
\* mem::transmute, which rustc rejects when the sizes differ.
unsafe_impl_coerce_arrow ==
    /\ pc = "expand" /\ todo # <<>>
    /\ Head(todo).mac = "coerce" /\ Head(todo).form = "arrow"
    /\ LET t == Head(todo).tys[1]
           u == Head(todo).tys[2]
       IN  IF TraitPathVisible /\ SizeOf(t) = SizeOf(u)
           THEN /\ coerceImpls' = Emit(coerceImpls, << <<t, u>> >>)
                /\ todo' = Tail(todo)
                /\ pc' = pc
           ELSE /\ pc' = "build_failed"
                /\ UNCHANGED <<coerceImpls, todo>>
    /\ UNCHANGED <<maybe_uninit, crate, asImpls, handImpls, runVars>>

\* A faulty expansion of the chain arm: it pairs the first type with every
\* other and forgets the rest of the chain.
CoerceChainExpansionNoTail(tys) ==
    LET t == tys[1]
        u == tys[2]
        rest == SubSeq(tys, 3, Len(tys))
    IN  << Inv("coerce", "bar", <<t, u>>, <<>>) >>
        \o [i \in DOMAIN rest |-> Inv("coerce", "bar", <<t, rest[i]>>, <<>>)]

\* The expansion of arm ( $t:ty | $u:ty | $( $u_remaining:ty )|+ ).
CoerceChainExpansion(tys) ==
    LET t == tys[1]
        u == tys[2]
        rest == SubSeq(tys, 3, Len(tys))
    IN  << Inv("coerce", "bar", <<t, u>>, <<>>) >>
        \o [i \in DOMAIN rest |-> Inv("coerce", "bar", <<t, rest[i]>>, <<>>)]
        \o << Inv("coerce", "bar", <<u>> \o rest, <<>>) >>

\* unsafe_impl_coerce!, arm ( $t:ty | $u:ty )
unsafe_impl_coerce_pair ==
    /\ pc = "expand" /\ todo # <<>>
    /\ Head(todo).mac = "coerce" /\ Head(todo).form = "bar"
    /\ Len(Head(todo).tys) = 2
    /\ LET t == Head(todo).tys[1]
           u == Head(todo).tys[2]
       IN  todo' = << Inv("coerce", "arrow", <<t, u>>, <<>>),
                      Inv("coerce", "arrow", <<u, t>>, <<>>) >> \o Tail(todo)
    /\ UNCHANGED <<maybe_uninit, crate, coerceImpls, asImpls, handImpls, pc, runVars>>

\* unsafe_impl_coerce!, arm ( $t:ty | $u:ty | $( $u_remaining:ty )|+ )
unsafe_impl_coerce_chain ==
    /\ pc = "expand" /\ todo # <<>>
    /\ Head(todo).mac = "coerce" /\ Head(todo).form = "bar"
    /\ Len(Head(todo).tys) > 2
    /\ todo' = CoerceChainExpansion(Head(todo).tys) \o Tail(todo)
    /\ UNCHANGED <<maybe_uninit, crate, coerceImpls, asImpls, handImpls, pc, runVars>>

\* unsafe_impl_coerce!, arm ( $( { $t:ty | $( $u:ty )|+ }; )+ )
unsafe_impl_coerce_table ==
    /\ pc = "expand" /\ todo # <<>>
    /\ Head(todo).mac = "coerce" /\ Head(todo).form = "defs"
    /\ todo' = Head(todo).defs \o Tail(todo)
    /\ UNCHANGED <<maybe_uninit, crate, coerceImpls, asImpls, handImpls, pc, runVars>>

\* unsafe_impl_as!, arm ( $src:ty => $( $dst:ty ),+ )
unsafe_impl_as_arrow ==
    /\ pc = "expand" /\ todo # <<>>
    /\ Head(todo).mac = "as" /\ Head(todo).form = "arrow"
    /\ LET src == Head(todo).tys[1]
           dsts == Tail(Head(todo).tys)
       IN  IF TraitPathVisible
           THEN /\ asImpls' = Emit(asImpls, [i \in DOMAIN dsts |-> <<src, dsts[i]>>])
                /\ todo' = Tail(todo)
                /\ pc' = pc
           ELSE /\ pc' = "build_failed"
                /\ UNCHANGED <<asImpls, todo>>
    /\ UNCHANGED <<maybe_uninit, crate, coerceImpls, handImpls, runVars>>

\* unsafe_impl_as!, arm ( $src:ty = $dst:ty )
unsafe_impl_as_eq ==
    /\ pc = "expand" /\ todo # <<>>
    /\ Head(todo).mac = "as" /\ Head(todo).form = "eq"
    /\ Len(Head(todo).tys) = 2
    /\ LET src == Head(todo).tys[1]
           dst == Head(todo).tys[2]
       IN  IF TraitPathVisible
           THEN /\ asImpls' = Emit(asImpls, << <<src, dst>>, <<dst, src>> >>)
                /\ todo' = Tail(todo)
                /\ pc' = pc
           ELSE /\ pc' = "build_failed"
                /\ UNCHANGED <<asImpls, todo>>
    /\ UNCHANGED <<maybe_uninit, crate, coerceImpls, handImpls, runVars>>

\* The expansion of arm ( $src:ty = $dst:ty $(= $rest:ty )+ ).
AsChainExpansion(tys) ==
    << Inv("as", "eq", <<tys[1], tys[2]>>, <<>>),
       Inv("as", "eq", Tail(tys), <<>>) >>

\* unsafe_impl_as!, arm ( $src:ty = $dst:ty $(= $rest:ty )+ )
unsafe_impl_as_chain ==
    /\ pc = "expand" /\ todo # <<>>
    /\ Head(todo).mac = "as" /\ Head(todo).form = "eq"
    /\ Len(Head(todo).tys) > 2
    /\ todo' = AsChainExpansion(Head(todo).tys) \o Tail(todo)
    /\ UNCHANGED <<maybe_uninit, crate, coerceImpls, asImpls, handImpls, pc, runVars>>

\* unsafe_impl_as!, arm ({ $src:ty => $( $dst:ty ),+ })
unsafe_impl_as_brace_arrow ==
    /\ pc = "expand" /\ todo # <<>>
    /\ Head(todo).mac = "as" /\ Head(todo).form = "brace_arrow"
    /\ todo' = << Inv("as", "arrow", Head(todo).tys, <<>>) >> \o Tail(todo)
    /\ UNCHANGED <<maybe_uninit, crate, coerceImpls, asImpls, handImpls, pc, runVars>>

\* unsafe_impl_as!, arm ({ $src:ty = $( $dst:ty )=+ })
unsafe_impl_as_brace_eq ==
    /\ pc = "expand" /\ todo # <<>>
    /\ Head(todo).mac = "as" /\ Head(todo).form = "brace_eq"
    /\ todo' = << Inv("as", "eq", Head(todo).tys, <<>>) >> \o Tail(todo)
    /\ UNCHANGED <<maybe_uninit, crate, coerceImpls, asImpls, handImpls, pc, runVars>>

\* unsafe_impl_as!, arm ( $( $def:tt; )+ )
unsafe_impl_as_table ==
    /\ pc = "expand" /\ todo # <<>>
    /\ Head(todo).mac = "as" /\ Head(todo).form = "defs"
    /\ todo' = Head(todo).defs \o Tail(todo)
    /\ UNCHANGED <<maybe_uninit, crate, coerceImpls, asImpls, handImpls, pc, runVars>>

\* The crate itself is expanded; a downstream crate adds its declarations.
DownstreamCrate ==
    /\ pc = "expand" /\ todo = <<>> /\ crate = "coercion"
    /\ \E decl \in DownstreamDecls :
        /\ todo' = decl.macros
        /\ handImpls' = decl.impls
    /\ crate' = "downstream"
    /\ UNCHANGED <<maybe_uninit, coerceImpls, asImpls, pc, runVars>>

\* Every macro is expanded and every item type-checked: the program is built.
Build ==
    /\ pc = "expand" /\ todo = <<>> /\ crate = "downstream"
    /\ pc' = "built"
    /\ UNCHANGED <<buildVars, runVars>>

---------------------------------------------------------------------------
(* Trait resolution: which impl, if any, gives `S: Coerce<D>` and          *)
(* `S: As<D>`.  Self is the first argument, the trait parameter the second.*)

\* the macros generated `impl Tr<D> for S`; they are used on plain types only
Generated(impls, S, D) ==
    Len(S) = 1 /\ Len(D) = 1 /\ \E i \in DOMAIN impls : impls[i] = <<S, D>>

RECURSIVE CoerceImpl(_, _)
CoerceImpl(S, D) ==
    IF Generated(coerceImpls, S, D) THEN "macro"
    ELSE IF Generated(handImpls, S, D) THEN "default"
    ELSE IF S = <<"Slice", "u8">> /\ D = <<"str">> THEN "bytes_str"
    ELSE IF S = <<"str">> /\ D = <<"Slice", "u8">> THEN "str_bytes"
    ELSE IF maybe_uninit /\ Head(S) = "MaybeUninit" /\ Tail(S) = D THEN "uninit_unwrap"
    ELSE IF maybe_uninit /\ Head(D) = "MaybeUninit" /\ Tail(D) = S /\ Sized(S)
         THEN "uninit_wrap"
    ELSE IF Len(S) < 2 \/ Len(D) < 2 \/ Head(S) # Head(D) THEN "none"
    ELSE IF Head(S) = "Slice"
         THEN IF /\ Sized(Tail(S)) /\ Sized(Tail(D))
                 /\ CoerceImpl(Tail(S), Tail(D)) # "none"
              THEN "slice" ELSE "none"
    ELSE IF Head(S) = "Box"
         THEN IF CoerceImpl(Tail(S), Tail(D)) # "none" THEN "box" ELSE "none"
    ELSE IF Head(S) \in {"Ref", "RefMut", "PtrConst", "PtrMut"}
         \* impl Coerce<&'a T> for &'a U where T: Coerce<U>
         THEN IF CoerceImpl(Tail(D), Tail(S)) # "none" THEN Head(S) ELSE "none"
    ELSE IF Head(S) = "ManuallyDrop"
         THEN IF CoerceImpl(Tail(S), Tail(D)) # "none" THEN "manuallydrop" ELSE "none"
    ELSE "none"

HasCoerce(S, D) == CoerceImpl(S, D) # "none"

RECURSIVE HasAs(_, _)
HasAs(S, D) ==
    IF Generated(asImpls, S, D) THEN TRUE
    ELSE IF S = <<"str">> /\ D = <<"Slice", "u8">> THEN TRUE
    ELSE IF Len(S) < 2 \/ Len(D) < 2 \/ Head(S) # Head(D) THEN FALSE
    ELSE IF Head(S) = "Slice"
         THEN Sized(Tail(S)) /\ Sized(Tail(D)) /\ HasAs(Tail(S), Tail(D))
    ELSE IF Head(S) \in {"Box", "ManuallyDrop"}
         THEN HasAs(Tail(S), Tail(D))
    ELSE IF Head(S) \in {"Ref", "RefMut", "PtrConst", "PtrMut"}
         \* impl As<&'a T> for &'a U where T: As<U>
         THEN HasAs(Tail(D), Tail(S))
    ELSE FALSE

---------------------------------------------------------------------------
(* Bytes, words and pointers.                                              *)

\* the allocation of the client's value, and a second address
Addresses == {4096, 4112}
HeapBase == CHOOSE a \in Addresses : \A b \in Addresses : a <= b

\* a usize in memory, little-endian
Word(n) ==
    << n % 256, (n \div 256) % 256, (n \div 65536) % 256, (n \div 16777216) % 256,
       0, 0, 0, 0 >>

ByteAt(bytes, i) == IF i \in DOMAIN bytes THEN bytes[i] ELSE 0

\* the k-th usize of a byte sequence
WordAt(bytes, k) ==
    LET o == WordSize * (k - 1)
    IN  ByteAt(bytes, o + 1) + 256 * ByteAt(bytes, o + 2)
        + 65536 * ByteAt(bytes, o + 3) + 16777216 * ByteAt(bytes, o + 4)

\* A faulty copy: one byte short, the last byte of the result left zero.
transmute_copy_short(src, dstSize) ==
    IF dstSize = 0 THEN <<>> ELSE SubSeq(src, 1, dstSize - 1) \o <<0>>

\* mem::transmute_copy::<Src, Dst>(&src): reads size_of::<Dst>() bytes of src
transmute_copy(src, dstSize) == SubSeq(src, 1, dstSize)

\* mem::transmute::<Src, Dst>(src): the sizes are equal or rustc rejects it
transmute(src) == transmute_copy(src, Len(src))

\* #[repr(C)] struct FatPtr { ptr: usize, len: usize }
FatPtr(bytes) == [ptr |-> WordAt(bytes, 1), len |-> WordAt(bytes, 2)]

\* A faulty reconstruction: the count rescaled as if the elements had halved.
FromFatPtrRescaled(repr) == Word(repr.ptr) \o Word(2 * repr.len)

FromFatPtr(repr) == Word(repr.ptr) \o Word(repr.len)

\* `this as *const U` between pointers to Sized types: the address
PtrCast(this) == Word(WordAt(this, 1))

\* assert_layout_eq!(t, u) passes
assert_layout_eq(t, u) == LayoutOf(t) = LayoutOf(u)

\* assert_ptr_layout_eq!(t, u) passes
assert_ptr_layout_eq(t, u) == PtrLayout(t) = PtrLayout(u)

\* A call returns bytes or panics; drops_self says whether the callee ran the
\* destructor of its owned argument (on a panic: whether it still owned it).
Ok(bytes) == [status |-> "ok", bytes |-> bytes, drops_self |-> FALSE]
Panic(drops_self) == [status |-> "panic", bytes |-> <<>>, drops_self |-> drops_self]

---------------------------------------------------------------------------
(* The methods of Coerce, by impl.                                         *)

\* <[T] as Coerce<[U]>>::coerce_ptr
slice_coerce_ptr(S, D, this) ==
    IF assert_layout_eq(Tail(S), Tail(D))
    THEN Ok(FromFatPtr(FatPtr(transmute(this))))
    ELSE Panic(FALSE)

\* Coerce::coerce_ptr, the default method
default_coerce_ptr(S, D, this) ==
    IF assert_ptr_layout_eq(S, D)
    THEN Ok(transmute_copy(this, PtrLayout(D)[1]))
    ELSE Panic(FALSE)

\* <S as Coerce<D>>::coerce_ptr(this)
coerce_ptr(S, D, this) ==
    LET impl == CoerceImpl(S, D)
    IN  CASE impl = "slice" -> slice_coerce_ptr(S, D, this)
          [] impl \in {"bytes_str", "str_bytes"} -> Ok(transmute(this))
          [] impl \in {"manuallydrop", "default"} -> default_coerce_ptr(S, D, this)
          [] OTHER -> Ok(PtrCast(this))

\* <S as Coerce<D>>::coerce_mut_ptr(this): no impl overrides the default
coerce_mut_ptr(S, D, this) ==
    IF assert_ptr_layout_eq(S, D)
    THEN coerce_ptr(S, D, this)
    ELSE Panic(FALSE)

\* Coerce::coerce, the default method
default_coerce(S, D, self) ==
    IF assert_layout_eq(S, D) /\ assert_ptr_layout_eq(S, D)
    THEN Ok(transmute_copy(self, SizeOf(D)))
    ELSE Panic(TRUE)

\* A faulty Box conversion: the pointer is taken without Box::into_raw, so
\* the source Box is dropped when the function returns.
box_coerce_without_into_raw(S, D, self) ==
    IF assert_ptr_layout_eq(Tail(S), Tail(D)) /\ assert_layout_eq(S, D)
    THEN LET u_ptr == coerce_mut_ptr(Tail(S), Tail(D), self)
         IN  IF u_ptr.status = "ok"
             THEN [status |-> "ok", bytes |-> u_ptr.bytes, drops_self |-> TRUE]
             ELSE Panic(TRUE)
    ELSE Panic(TRUE)

\* A faulty Box conversion: the pointee is moved to a new allocation.
box_coerce_realloc(S, D, self) ==
    IF assert_ptr_layout_eq(Tail(S), Tail(D)) /\ assert_layout_eq(S, D)
    THEN LET u_ptr == coerce_mut_ptr(Tail(S), Tail(D), self)
             moved == CHOOSE a \in Addresses : a # WordAt(self, 1)
         IN  IF u_ptr.status = "ok"
             THEN Ok(Word(moved) \o SubSeq(u_ptr.bytes, WordSize + 1, Len(u_ptr.bytes)))
             ELSE Panic(FALSE)
    ELSE Panic(TRUE)

\* <Box<T> as Coerce<Box<U>>>::coerce
box_coerce(S, D, self) ==
    IF assert_ptr_layout_eq(Tail(S), Tail(D)) /\ assert_layout_eq(S, D)
    THEN LET t_ptr == self
             u_ptr == coerce_mut_ptr(Tail(S), Tail(D), t_ptr)
         IN  IF u_ptr.status = "ok" THEN Ok(u_ptr.bytes) ELSE Panic(FALSE)
    ELSE Panic(TRUE)

\* <S as Coerce<D>>::coerce(self)
coerce(S, D, self) ==
    LET impl == CoerceImpl(S, D)
    IN  CASE impl = "macro" -> Ok(transmute(self))
          [] impl = "box" -> box_coerce(S, D, self)
          [] OTHER -> default_coerce(S, D, self)

\* <S as As<D>>::as_(self)
as_(S, D, self) == coerce(S, D, self)

---------------------------------------------------------------------------
(* Values, memory and validity.                                            *)

\* longest slice and str the client allocates
MaxLen == 2
\* most conversions the client applies to one value
MaxOps == 2

\* 0 and 1 are the bools, 0 is no NonZero, 255 has the sign bit set and is
\* no UTF-8 byte
ByteVals == {0, 1, 2, 255}

\* the scalar types the client uses
SampleScalars == {"bool", "u8", "NonZeroU8", "u16", "U8x2", "u64", "NonZeroU64"}
SliceElems == {"bool", "u8", "U8x2"}

NoValue == [ty |-> <<"none">>, bytes |-> <<>>]
NoOp == [op |-> "none", src |-> <<"none">>, dst |-> <<"none">>,
         arg |-> NoValue, res |-> NoValue, status |-> "none"]

Value(ty, bytes) == [ty |-> ty, bytes |-> bytes]

\* the validity invariant of a scalar type on its own bytes
ValidScalar(name, bytes) ==
    CASE name \in {"bool", "AtomicBool"} -> ByteAt(bytes, 1) \in {0, 1}
      [] name \in NonZeroNames -> \E i \in DOMAIN bytes : bytes[i] # 0
      [] OTHER -> TRUE

\* the bytes at 1-based offsets from..to of an allocation (-1 out of bounds)
ReadMem(mem, from, to) ==
    [i \in 1..(to - from + 1) |->
        IF (from + i - 1) \in DOMAIN mem THEN mem[from + i - 1] ELSE -1]

\* memory `mem` holds a valid value of type t, whose pointer metadata is len
RECURSIVE ValidAt(_, _, _)
ValidAt(t, mem, len) ==
    CASE Head(t) = "MaybeUninit" -> TRUE
      [] Head(t) = "ManuallyDrop" -> ValidAt(Tail(t), mem, len)
      [] Head(t) = "Slice" ->
            LET sz == SizeOf(Tail(t))
            IN  \A i \in 1..len :
                    ValidAt(Tail(t), ReadMem(mem, (i - 1) * sz + 1, i * sz), 0)
      [] Head(t) = "str" -> \A i \in 1..len : ByteAt(mem, i) < 128 /\ i \in DOMAIN mem
      [] Head(t) \in PtrCtors -> TRUE
      [] OTHER -> ValidScalar(Head(t), mem)

\* the value obeys the validity invariant of its type, its pointee included
RECURSIVE Valid(_, _, _)
Valid(t, bytes, h) ==
    CASE Head(t) = "MaybeUninit" -> TRUE
      [] Head(t) = "ManuallyDrop" -> Valid(Tail(t), bytes, h)
      [] Head(t) \in {"PtrConst", "PtrMut"} -> TRUE
      [] Head(t) \in {"Box", "Ref", "RefMut"} ->
            LET a == WordAt(bytes, 1)
            IN  /\ a \in DOMAIN h
                /\ h[a].live
                /\ ValidAt(Tail(t), h[a].bytes, WordAt(bytes, 2))
      [] OTHER -> ValidScalar(Head(t), bytes)

\* the elements a pointer value designates, read with its own pointee type
Elements(v, h) ==
    LET a == WordAt(v.bytes, 1)
        mem == IF a \in DOMAIN h THEN h[a].bytes ELSE <<>>
        t == Tail(v.ty)
    IN  IF Head(t) = "Slice"
        THEN [i \in 1..WordAt(v.bytes, 2) |->
                ReadMem(mem, (i - 1) * SizeOf(Tail(t)) + 1, i * SizeOf(Tail(t)))]
        ELSE IF Head(t) = "str"
        THEN [i \in 1..WordAt(v.bytes, 2) |-> ReadMem(mem, i, i)]
        ELSE << ReadMem(mem, 1, SizeOf(t)) >>

\* drop glue: the allocations dropping a value of type t releases
Releases(t, bytes) ==
    CASE Head(t) = "Box" -> {WordAt(bytes, 1)}
      [] OTHER -> {}

Release(h, addrs) ==
    [a \in DOMAIN h |->
        IF a \in addrs
        THEN [h[a] EXCEPT !.live = FALSE, !.releases = @ + 1]
        ELSE h[a]]

---------------------------------------------------------------------------
(* The client's inputs.                                                    *)

Pad(bs, n) == bs \o [i \in 1..(n - Len(bs)) |-> 0]

\* valid bit patterns of a scalar type
Patterns(name) ==
    LET n == SizeOf(<<name>>)
    IN  { p \in {Pad(<<b>>, n) : b \in ByteVals} \cup {[i \in 1..n |-> 255] \o <<>>} :
            ValidScalar(name, p) }

RECURSIVE Concat(_)
Concat(ss) == IF Len(ss) = 0 THEN <<>> ELSE Head(ss) \o Concat(Tail(ss))

SeqsUpTo(S, n) == UNION {[1..k -> S] : k \in 0..n}

\* what an allocation may hold: its type, its bytes and its element count
ScalarPointees ==
    UNION { { [ty |-> <<nm>>, mem |-> p, len |-> 0] : p \in Patterns(nm) } :
            nm \in SampleScalars }

SlicePointees ==
    UNION { { [ty |-> <<"Slice", nm>>, mem |-> Concat(es), len |-> Len(es)] :
                es \in SeqsUpTo(Patterns(nm), MaxLen) } :
            nm \in SliceElems }

StrPointees ==
    { [ty |-> <<"str">>, mem |-> bs \o <<>>, len |-> Len(bs)] :
        bs \in SeqsUpTo({b \in ByteVals : b < 128}, MaxLen) }

Pointees == ScalarPointees \cup SlicePointees \cup StrPointees

Alloc(pointee) == [bytes |-> pointee.mem, live |-> TRUE, releases |-> 0]

\* a pointer of kind ctor to a fresh allocation holding pointee
PointerTo(ctor, pointee) ==
    [val |-> Value(<<ctor>> \o pointee.ty,
                   Word(HeapBase)
                   \o (IF Sized(pointee.ty) THEN <<>> ELSE Word(pointee.len))),
     heap |-> [a \in {HeapBase} |-> Alloc(pointee)]]

NoHeap == [a \in {} |-> Alloc([mem |-> <<>>])]

PlainStarts ==
    { [val |-> Value(p.ty, p.mem), heap |-> NoHeap] : p \in ScalarPointees }
    \cup { PointerTo(c, p) : c \in {"Box", "Ref"}, p \in Pointees }
    \cup { PointerTo(c, p) : c \in {"RefMut", "PtrConst", "PtrMut"},
                             p \in {x \in ScalarPointees : x.ty = <<"u8">>} }

\* the values the client starts from: plain ones and ManuallyDrop::new of them
StartValues ==
    PlainStarts
    \cup { [val |-> Value(<<"ManuallyDrop">> \o s.val.ty, s.val.bytes), heap |-> s.heap] :
            s \in { x \in PlainStarts : x.val.ty \in {<<"bool">>, <<"U8x2">>, <<"Box", "bool">>} } }

\* the target types the client tries: one part of the type rewritten
Rewrites(suffix) ==
    (IF Len(suffix) = 1 /\ Head(suffix) \in SampleScalars
     THEN {<<nm>> : nm \in SampleScalars} ELSE {})
    \cup {<<"MaybeUninit">> \o suffix}
    \cup (IF Head(suffix) = "MaybeUninit" THEN {Tail(suffix)} ELSE {})
    \cup (IF suffix = <<"Slice", "u8">> THEN {<<"str">>} ELSE {})
    \cup (IF suffix = <<"str">> THEN {<<"Slice", "u8">>} ELSE {})

Candidates(S) ==
    UNION { { SubSeq(S, 1, k - 1) \o r : r \in Rewrites(SubSeq(S, k, Len(S))) } :
            k \in 1..Len(S) } \ {S}

---------------------------------------------------------------------------
(* Run time: the client's operations.                                      *)

Init ==
    /\ maybe_uninit \in BOOLEAN
    /\ todo = <<BuiltinCoerceInvocation, BuiltinAsInvocation>>
    /\ crate = "coercion"
    /\ coerceImpls = <<>>
    /\ asImpls = <<>>
    /\ handImpls = <<>>
    /\ pc = "expand"
    /\ heap = NoHeap
    /\ cur = NoValue
    /\ orig = [val |-> NoValue, heap |-> NoHeap]
    /\ path = <<>>
    /\ tier = "safe"
    /\ last = NoOp

\* the client makes its value
Start ==
    /\ pc = "built"
    /\ \E s \in StartValues :
        /\ cur' = s.val
        /\ heap' = s.heap
        /\ orig' = s
        /\ path' = <<s.val>>
    /\ pc' = "run"
    /\ tier' = "safe"
    /\ last' = NoOp
    /\ UNCHANGED buildVars

\* An owned conversion returned r: the result replaces the value, or the
\* panic unwinds; the argument's destructor runs if the callee dropped it.
Converted(op, D, r) ==
    /\ last' = [op |-> op, src |-> cur.ty, dst |-> D, arg |-> cur,
                res |-> IF r.status = "ok" THEN Value(D, r.bytes) ELSE NoValue,
                status |-> r.status]
    /\ heap' = IF r.drops_self
               THEN Release(heap, Releases(cur.ty, cur.bytes))
               ELSE heap
    /\ IF r.status = "ok"
       THEN /\ cur' = Value(D, r.bytes)
            /\ path' = Append(path, Value(D, r.bytes))
            /\ pc' = "run"
       ELSE /\ cur' = NoValue
            /\ path' = path
            /\ pc' = "panicked"
    /\ UNCHANGED <<orig, buildVars>>

\* unsafe { cur.coerce() }: the caller guarantees the bits are a valid D
Coerce ==
    /\ pc = "run" /\ Len(path) <= MaxOps
    /\ \E D \in Candidates(cur.ty) :
        /\ HasCoerce(cur.ty, D) /\ Sized(cur.ty) /\ Sized(D)
        /\ LET r == coerce(cur.ty, D, cur.bytes)
           IN  /\ r.status = "ok" => Valid(D, r.bytes, heap)
               /\ Converted("coerce", D, r)
    /\ tier' = "unchecked"

\* cur.as_()
As ==
    /\ pc = "run" /\ Len(path) <= MaxOps
    /\ \E D \in Candidates(cur.ty) :
        /\ HasAs(cur.ty, D) /\ Sized(cur.ty) /\ Sized(D)
        /\ Converted("as_", D, as_(cur.ty, D, cur.bytes))
    /\ tier' = tier

\* A pointer conversion of the raw pointer to the client's pointee returned
\* r; a panic unwinds and drops the client's value.
PtrConverted(op, ctor, D, r) ==
    /\ last' = [op |-> op, src |-> Tail(cur.ty), dst |-> D,
                arg |-> Value(<<ctor>> \o Tail(cur.ty), cur.bytes),
                res |-> IF r.status = "ok" THEN Value(<<ctor>> \o D, r.bytes) ELSE NoValue,
                status |-> r.status]
    /\ IF r.status = "ok"
       THEN UNCHANGED <<cur, pc, heap>>
       ELSE /\ cur' = NoValue
            /\ pc' = "panicked"
            /\ heap' = Release(heap, Releases(cur.ty, cur.bytes))
    /\ UNCHANGED <<orig, path, tier, buildVars>>

\* Coerce::coerce_ptr(p) for the *const pointer to the client's pointee
CoercePtr ==
    /\ pc = "run" /\ Head(cur.ty) \in PtrCtors
    /\ \E D \in Candidates(Tail(cur.ty)) :
        /\ HasCoerce(Tail(cur.ty), D)
        /\ PtrConverted("coerce_ptr", "PtrConst", D, coerce_ptr(Tail(cur.ty), D, cur.bytes))

\* Coerce::coerce_mut_ptr(p) for the *mut pointer to the client's pointee
CoerceMutPtr ==
    /\ pc = "run" /\ Head(cur.ty) \in {"Box", "RefMut", "PtrMut"}
    /\ \E D \in Candidates(Tail(cur.ty)) :
        /\ HasCoerce(Tail(cur.ty), D)
        /\ PtrConverted("coerce_mut_ptr", "PtrMut", D,
                        coerce_mut_ptr(Tail(cur.ty), D, cur.bytes))

\* *cur, for a reference to a scalar
Deref ==
    /\ pc = "run" /\ Head(cur.ty) \in {"Ref", "RefMut"} /\ Len(cur.ty) = 2
    /\ Head(Tail(cur.ty)) \in SampleScalars
    /\ LET v == Value(Tail(cur.ty), Elements(cur, heap)[1] \o <<>>)
       IN  /\ cur' = v
           /\ path' = <<v>>
           /\ last' = [op |-> "deref", src |-> cur.ty, dst |-> v.ty, arg |-> cur,
                       res |-> v, status |-> "ok"]
    /\ UNCHANGED <<pc, heap, orig, tier, buildVars>>

\* drop(cur)
Drop ==
    /\ pc = "run"
    /\ heap' = Release(heap, Releases(cur.ty, cur.bytes))
    /\ last' = [op |-> "drop", src |-> cur.ty, dst |-> cur.ty, arg |-> cur,
                res |-> NoValue, status |-> "ok"]
    /\ cur' = NoValue
    /\ pc' = "dropped"
    /\ UNCHANGED <<orig, path, tier, buildVars>>

Next ==
    \/ unsafe_impl_coerce_arrow
    \/ unsafe_impl_coerce_pair
    \/ unsafe_impl_coerce_chain
    \/ unsafe_impl_coerce_table
    \/ unsafe_impl_as_arrow
    \/ unsafe_impl_as_eq
    \/ unsafe_impl_as_chain
    \/ unsafe_impl_as_brace_arrow
    \/ unsafe_impl_as_brace_eq
    \/ unsafe_impl_as_table
    \/ DownstreamCrate
    \/ Build
    \/ Start
    \/ Coerce
    \/ As
    \/ CoercePtr
    \/ CoerceMutPtr
    \/ Deref
    \/ Drop

Spec == Init /\ [][Next]_vars

---------------------------------------------------------------------------
(* Properties.                                                             *)

Conversions == {"coerce", "as_"}
PtrConversions == {"coerce_ptr", "coerce_mut_ptr"}
LiftingCtors == {"Slice", "Box", "Ref", "RefMut", "PtrConst", "PtrMut", "ManuallyDrop"}

Count(impls, pair) == Cardinality({i \in DOMAIN impls : impls[i] = pair})

\* C1: the safe tier is sound: a value made by the client from valid values
\* with as_ conversions and reads through references alone obeys the
\* validity invariant of its type (a bool is 0 or 1, a NonZero is not 0,
\* a str is UTF-8), behind references and boxes too.
C1_SafeTierSound ==
    (pc = "run" /\ tier = "safe") => Valid(cur.ty, cur.bytes, heap)

\* C2: directionality: for every declared one-way capability T => U
\* (bool => u8, NonZeroX => X) As goes from T to U and not from U to T, and
\* under every composite rule As goes from C<T> to C<U> and not from C<U> to
\* C<T>.
C2_Directionality ==
    pc = "built" =>
        \A i \in DOMAIN AsArrows :
            LET T == Ty(AsArrows[i][1])
                U == Ty(AsArrows[i][2])
            IN  /\ HasAs(T, U) /\ ~HasAs(U, T)
                /\ \A c \in LiftingCtors :
                    /\ ~HasAs(<<c>> \o U, <<c>> \o T)
                    /\ HasAs(<<c>> \o T, <<c>> \o U)

\* the pair, or the pair it is a lifting of, differs in size or alignment
RECURSIVE Mismatched(_, _)
Mismatched(S, D) ==
    \/ Sized(S) /\ Sized(D) /\ LayoutOf(S) # LayoutOf(D)
    \/ /\ Len(S) > 1 /\ Len(D) > 1 /\ Head(S) = Head(D)
       /\ Mismatched(Tail(S), Tail(D))

\* C3: the layout gate: a declared relation whose sizes differ fails the
\* build, and no conversion operation (coerce, as_, coerce_ptr,
\* coerce_mut_ptr, or a lifting of them) returns a result for a pair whose
\* size or alignment differ.
C3_LayoutGate ==
    /\ pc = "built" =>
            \A i \in DOMAIN coerceImpls :
                LayoutOf(coerceImpls[i][1]) = LayoutOf(coerceImpls[i][2])
    /\ (last.op \in Conversions \cup PtrConversions /\ last.status = "ok") =>
            ~Mismatched(last.src, last.dst)

\* C4: round trip: a value coerced T -> U -> T has the bytes it started
\* with, and designates the same elements with the same bytes.
C4_RoundTrip ==
    pc = "run" =>
        \A i \in 1..(Len(path) - 2) :
            path[i + 2].ty = path[i].ty =>
                /\ path[i + 2].bytes = path[i].bytes
                /\ Head(path[i].ty) \in PtrCtors =>
                    Elements(path[i + 2], heap) = Elements(path[i], orig.heap)

C4_Witness ==
    /\ pc = "run" /\ Len(path) = 3
    /\ path[1].ty = <<"Box", "Slice", "u8">>
    /\ path[2].ty = <<"Box", "Slice", "bool">>
    /\ path[3].ty = <<"Box", "Slice", "u8">>
    /\ Elements(path[3], heap) = << <<1>>, <<0>> >>

\* the last operation turned a pointer to [T] into a pointer to [U], by the
\* pointer coercion of [T] directly or inside a Box
SliceLifted ==
    /\ last.status = "ok"
    /\ \/ last.op \in PtrConversions
       \/ last.op \in Conversions /\ Head(last.src) = "Box"
    /\ Len(last.arg.ty) = 3 /\ Len(last.res.ty) = 3
    /\ last.arg.ty[2] = "Slice" /\ last.res.ty[2] = "Slice"

\* C5: a sequence of N elements of T reinterpreted as a sequence of U has N
\* elements, the i-th being the i-th source element reinterpreted on its
\* own; the count word is the source's.
C5_SliceLifting ==
    SliceLifted =>
        LET T == <<last.arg.ty[3]>>
            U == <<last.res.ty[3]>>
            n == WordAt(last.arg.bytes, 2)
            from == Elements(last.arg, heap)
            to == Elements(last.res, heap)
        IN  /\ WordAt(last.res.bytes, 2) = n
            /\ DOMAIN to = 1..n
            /\ \A i \in 1..n :
                /\ coerce(T, U, from[i]).status = "ok"
                /\ to[i] = coerce(T, U, from[i]).bytes

C5_Witness ==
    /\ SliceLifted /\ last.op = "coerce"
    /\ last.src = <<"Box", "Slice", "u8">> /\ last.dst = <<"Box", "Slice", "bool">>
    /\ Elements(last.res, heap) = << <<0>>, <<1>> >>

\* C6 as claimed: once a resource-owning value was converted and the result
\* dropped, its resource was released exactly once; no conversion releases
\* it, and it is never released twice.
C6_SingleRelease ==
    /\ \A a \in DOMAIN heap : heap[a].releases <= 1
    /\ (last.op \in Conversions /\ last.status = "ok") =>
            \A a \in DOMAIN heap : heap[a].releases = 0
    /\ (pc = "dropped" /\ Len(path) > 1 /\ Releases(orig.val.ty, orig.val.bytes) # {}) =>
            \A a \in DOMAIN heap : heap[a].releases = 1

\* C6 amended: no conversion releases the resource and it is never released
\* twice; once the result is dropped it was released exactly once when the
\* result is a Box, and not at all when the result is the Box wrapped in
\* MaybeUninit, which has no destructor.
C6_SingleReleaseOfBox ==
    /\ \A a \in DOMAIN heap : heap[a].releases <= 1
    /\ (last.op \in Conversions /\ last.status = "ok") =>
            \A a \in DOMAIN heap : heap[a].releases = 0
    /\ (pc = "dropped" /\ Len(path) > 1 /\ Releases(orig.val.ty, orig.val.bytes) # {}) =>
            \A a \in DOMAIN heap :
                heap[a].releases = IF Head(last.arg.ty) = "Box" THEN 1 ELSE 0

C6_Witness ==
    /\ pc = "dropped" /\ Len(path) = 3
    /\ path[1].ty = <<"Box", "u64">> /\ path[2].ty = <<"Box", "NonZeroU64">>
    /\ \A a \in DOMAIN heap : heap[a].releases = 1

\* C7: with MaybeUninit built in, T -> MaybeUninit<T> is a safe capability
\* (As) and MaybeUninit<T> -> T is in the unchecked tier (Coerce) only, for
\* every T and under every composite rule.
C7_UninitRule ==
    (pc = "built" /\ maybe_uninit) =>
        \A nm \in SampleScalars :
            LET T == Ty(nm)
                M == <<"MaybeUninit", nm>>
            IN  /\ HasAs(T, M)
                /\ HasCoerce(M, T) /\ ~HasAs(M, T)
                /\ \A c \in LiftingCtors : ~HasAs(<<c>> \o M, <<c>> \o T)

BuiltinFamily(nm) == CHOOSE i \in DOMAIN CoerceTable : nm \in Range(CoerceTable[i])
BuiltinNames == UNION {Range(CoerceTable[i]) : i \in DOMAIN CoerceTable}

\* C8: the Coerce table holds every ordered pair of distinct types of each
\* width family, each generated exactly once, and no pair of two families.
C8_TableComplete ==
    /\ pc = "expand" =>
            \A i \in DOMAIN coerceImpls : Count(coerceImpls, coerceImpls[i]) = 1
    /\ (pc = "expand" /\ todo = <<>>) =>
            /\ \A f \in DOMAIN CoerceTable :
                \A a, b \in Range(CoerceTable[f]) :
                    a # b => Count(coerceImpls, <<Ty(a), Ty(b)>>) = 1
            /\ \A i \in DOMAIN coerceImpls :
                LET a == coerceImpls[i][1][1]
                    b == coerceImpls[i][2][1]
                IN  (a \in BuiltinNames /\ b \in BuiltinNames) =>
                        a # b /\ BuiltinFamily(a) = BuiltinFamily(b)

C8_Witness ==
    /\ pc = "expand" /\ todo = <<>> /\ crate = "coercion"
    /\ Count(coerceImpls, <<Ty("AtomicBool"), Ty("NonZeroI8")>>) = 1
    /\ Count(coerceImpls, <<Ty("AtomicIsize"), Ty("usize")>>) = 1

\* C9: a Box conversion returns a Box at the same address with the same
\* element count and leaves the allocation as it was; coerce_ptr and
\* coerce_mut_ptr return their argument's address and count, agree with
\* each other and leave memory as it was.
C9_InPlace ==
    /\ (last.op \in Conversions /\ last.status = "ok" /\ Head(last.src) = "Box") =>
            /\ WordAt(last.res.bytes, 1) = WordAt(last.arg.bytes, 1)
            /\ WordAt(last.res.bytes, 2) = WordAt(last.arg.bytes, 2)
            /\ Len(last.res.bytes) = Len(last.arg.bytes)
            /\ heap = orig.heap
    /\ (last.op \in PtrConversions /\ last.status = "ok") =>
            /\ last.res.bytes = last.arg.bytes
            /\ heap = orig.heap
            /\ coerce_ptr(last.src, last.dst, last.arg.bytes).bytes = last.res.bytes
            /\ coerce_mut_ptr(last.src, last.dst, last.arg.bytes).bytes = last.res.bytes

C9_Witness ==
    /\ last.op = "as_" /\ last.status = "ok"
    /\ last.src = <<"Box", "str">> /\ last.dst = <<"Box", "Slice", "u8">>
    /\ WordAt(last.res.bytes, 2) = 2
    /\ WordAt(last.res.bytes, 1) = HeapBase

\* C10: a chain { A = B = C = D } of unsafe_impl_as! gives As in both
\* directions between every two distinct types of the chain.
C10_AsChainsAllPairs ==
    pc = "built" =>
        \A i \in DOMAIN AsChains :
            \A a, b \in Range(AsChains[i]) : a # b => HasAs(Ty(a), Ty(b))

=============================================================================
